---- MODULE Spec2Model ----
(***************************************************************************)
(* Model of src/app.py, the "Trading Backtester" page: a flat script that  *)
(* is re-executed from top to bottom on every user interaction.  One rerun *)
(* checks that the CSV exists, loads it through a cache, takes the first   *)
(* column as time and guesses a price column, cleans both, resamples to    *)
(* the selected resolution and draws a two-panel chart.                    *)
(*                                                                         *)
(* Time is counted in minutes since 2020-01-01 00:00 (a midnight, so the   *)
(* calendar-aligned buckets of every resolution start at multiples of      *)
(* their width).  A dataframe cell is a record [k, v]: k is the kind of    *)
(* value ("str" text, "num" number, "nan" missing number, "ts" timestamp,  *)
(* "nat" missing timestamp) and v the text, number or minute.              *)
(***************************************************************************)
EXTENDS Integers, Sequences, FiniteSets, TLC

VARIABLES
    fs,            \* the file system: path -> file content, for the files that exist
    cache,         \* st.cache_data of load_csv: path argument -> returned table
    csv_path,      \* sidebar text input "CSV path"
    resolution,    \* sidebar selectbox "Resample to"
    pc,            \* position of the running script
    df,            \* the dataframe of the running script
    time_col,      \* detected time column
    price_col,     \* detected price column
    numeric_cols,  \* candidates of the numeric fallback
    df_resampled,  \* the resampled series, rows [time, price]
    message,       \* the error shown by this rerun, "" when none
    chart          \* the figure drawn by this rerun

vars == <<fs, cache, csv_path, resolution, pc, df, time_col, price_col,
          numeric_cols, df_resampled, message, chart>>

----------------------------------------------------------------------------
(* Bounds of the explored inputs *)

MaxCols == 3

MaxRows == 3

MaxCells == 6

MaxSeriesLen == 3

----------------------------------------------------------------------------
(* Values *)

Str(s) == [k |-> "str", v |-> s]

Num(n) == [k |-> "num", v |-> n]

NaN == [k |-> "nan", v |-> 0]

Ts(t) == [k |-> "ts", v |-> t]

NaT == [k |-> "nat", v |-> 0]

None == "<None>"

Range(s) == {s[i] : i \in DOMAIN s}

SetMin(S) == CHOOSE x \in S : \A y \in S : x <= y

SetMax(S) == CHOOSE x \in S : \A y \in S : y <= x

DEFAULT_CSV == "data/omxs_new.csv"

OtherCsv == "data/other.csv"

Paths == {DEFAULT_CSV, OtherCsv}

Resolutions == <<"D", "H", "15T", "5T">>

common_price_names == <<"Close", "close", "PRICE", "Price", "price", "Last", "last">>

FileNotFound == "File not found"

NoPriceColumnFound == "Could not find a numeric price column"

EmptyDf == [columns |-> <<>>, dtypes |-> <<>>, rows |-> <<>>]

NoChart == [drawn |-> FALSE, bars |-> <<>>, indicator |-> <<>>]

----------------------------------------------------------------------------
(* Parsing of texts, as the dataframe library does it on the texts used here *)

\* texts that parse as a date and time, with the minute they denote
DateValue ==
    ("2020-01-01 10:00" :> 600) @@ ("2020-01-01 10:02" :> 602) @@
    ("2020-01-01 10:30" :> 630) @@ ("2020-01-02 09:00" :> 1980) @@
    ("2020-01-03 00:00" :> 2880)

\* texts that parse as a number, with the number they denote
NumberValue == ("100" :> 100) @@ ("105" :> 105) @@ ("110" :> 110)

\* pd.to_datetime(errors="coerce") on one cell of a text column
to_datetime(c) ==
    IF c.k = "str" /\ c.v \in DOMAIN DateValue THEN Ts(DateValue[c.v]) ELSE NaT

\* pd.to_numeric(errors="coerce") on one cell: a number stays, a text is parsed
\* or becomes NaN, a timestamp is viewed as its integer
to_numeric(c) ==
    CASE c.k = "num" -> c
      [] c.k = "nan" -> c
      [] c.k = "ts"  -> Num(c.v)
      [] c.k = "str" -> IF c.v \in DOMAIN NumberValue THEN Num(NumberValue[c.v]) ELSE NaN

is_numeric_dtype(t) == t \in {"int64", "float64"}

----------------------------------------------------------------------------
(* load_csv *)

RECURSIVE JoinFields(_, _)
JoinFields(fields, sep) ==
    IF Len(fields) = 1 THEN fields[1]
    ELSE fields[1] \o sep \o JoinFields(Tail(fields), sep)

\* the fields of each line when the file is split at sep: a file written with
\* another separator has one field per line
SplitLines(content, sep) ==
    IF sep = content.sep \/ Len(content.header) = 1
    THEN [header |-> content.header, rows |-> content.rows]
    ELSE [header |-> <<JoinFields(content.header, content.sep)>>,
          rows |-> [i \in DOMAIN content.rows |->
                       <<JoinFields(content.rows[i], content.sep)>>]]

\* type inference of one column: numbers when every field is a number or
\* empty (and there is a field), text otherwise; an empty field is missing
InferColumn(texts) ==
    IF texts # <<>> /\ \A i \in DOMAIN texts : texts[i] \in DOMAIN NumberValue \cup {""}
    THEN [dtype |-> IF \E i \in DOMAIN texts : texts[i] = "" THEN "float64" ELSE "int64",
          cells |-> [i \in DOMAIN texts |->
                        IF texts[i] = "" THEN NaN ELSE Num(NumberValue[texts[i]])]]
    ELSE [dtype |-> "object",
          cells |-> [i \in DOMAIN texts |->
                        IF texts[i] = "" THEN NaN ELSE Str(texts[i])]]

read_csv(content, sep) ==
    LET f == SplitLines(content, sep)
        n == Len(f.header)
        col(j) == InferColumn([i \in DOMAIN f.rows |-> f.rows[i][j]])
    IN  [columns |-> f.header,
         dtypes |-> [j \in 1..n |-> col(j).dtype],
         rows |-> [i \in DOMAIN f.rows |-> [j \in 1..n |-> col(j).cells[i]]]]

load_csv(content) ==
    LET df_try == read_csv(content, ",")
    IN  IF Len(df_try.columns) = 1 THEN read_csv(content, ";") ELSE df_try

----------------------------------------------------------------------------
(* Dataframe operations *)

ColIndex(d, c) == CHOOSE j \in DOMAIN d.columns : d.columns[j] = c

\* d[c] = pd.to_datetime(d[c], errors="coerce")
parse_datetime(d, c) ==
    LET j == ColIndex(d, c)
    IN  [d EXCEPT !.dtypes[j] = "datetime64[ns]",
                  !.rows = [i \in DOMAIN d.rows |->
                               [d.rows[i] EXCEPT ![j] = to_datetime(d.rows[i][j])]]]

\* d.dropna(subset=[c])
dropna(d, c) ==
    LET j == ColIndex(d, c)
    IN  [d EXCEPT !.rows = SelectSeq(d.rows, LAMBDA r : r[j].k \notin {"nan", "nat"})]

\* the rows left in file order
unsorted(d, c) == {d}

\* d.sort_values(c): rows in ascending order of c; the default sort is not
\* stable, so rows with equal keys may come out in any order
sort_values(d, c) ==
    LET j == ColIndex(d, c)
        n == Len(d.rows)
        orders == {p \in [1..n -> 1..n] :
                      /\ \A a, b \in 1..n : a # b => p[a] # p[b]
                      /\ \A a \in 1..(n - 1) : d.rows[p[a]][j].v <= d.rows[p[a + 1]][j].v}
    IN  {[d EXCEPT !.rows = [i \in 1..n |-> d.rows[p[i]]]] : p \in orders}

\* d[c] = pd.to_numeric(d[c], errors="coerce")
coerce_numeric(d, c) ==
    LET j == ColIndex(d, c)
        old == d.dtypes[j]
        new == IF is_numeric_dtype(old) THEN old
               ELSE IF \E i \in DOMAIN d.rows : to_numeric(d.rows[i][j]).k = "nan"
                    THEN "float64" ELSE "int64"
    IN  [d EXCEPT !.dtypes[j] = new,
                  !.rows = [i \in DOMAIN d.rows |->
                               [d.rows[i] EXCEPT ![j] = to_numeric(d.rows[i][j])]]]

----------------------------------------------------------------------------
(* Column detection *)

\* the loop of lines 73-76 without its break: the last name that is a column
GuessLastCommonName(columns) ==
    LET hits == {i \in DOMAIN common_price_names : common_price_names[i] \in Range(columns)}
    IN  IF hits = {} THEN None ELSE common_price_names[SetMax(hits)]

\* lines 71-76: the first name of the list that is a column, in list order
GuessCommonName(columns) ==
    LET hits == {i \in DOMAIN common_price_names : common_price_names[i] \in Range(columns)}
    IN  IF hits = {} THEN None ELSE common_price_names[SetMin(hits)]

\* lines 80 and 87: the numeric columns other than the time column, in file order
NumericCols(d, tc) ==
    SelectSeq(d.columns, LAMBDA c : c # tc /\ is_numeric_dtype(d.dtypes[ColIndex(d, c)]))

\* coercion tried whatever the first scan found
AlwaysCoerce(cols) == TRUE

\* line 81: coercion of the other columns is tried only without a numeric column
NeedsCoercion(cols) == cols = <<>>

RECURSIVE CoerceEach(_, _, _)
\* lines 83-86: every column but the time column is coerced to numbers
CoerceEach(d, tc, j) ==
    IF j > Len(d.columns) THEN d
    ELSE CoerceEach(IF d.columns[j] = tc THEN d ELSE coerce_numeric(d, d.columns[j]), tc, j + 1)

\* line 94
PickPrice(cols) == cols[1]

----------------------------------------------------------------------------
(* Resampling *)

\* the widths of the resampling rules, in minutes (lines 25-27)
Width(rule) ==
    CASE rule = "D" -> 1440 [] rule = "H" -> 60 [] rule = "15T" -> 15 [] rule = "5T" -> 5

\* the bucket of a timestamp: buckets are closed on the left
BinStart(t, w) == t - (t % w)

\* a bucket labelled with its right edge
RightLabel(b, w) == b + w

\* a bucket is labelled with its left edge
BinLabel(b, w) == b

\* the buckets from the one of the first timestamp to the one of the last
Bins(series, w) ==
    IF series = <<>> THEN <<>>
    ELSE LET times == {series[i].time : i \in DOMAIN series}
             first == BinStart(SetMin(times), w)
             last == BinStart(SetMax(times), w)
         IN  [n \in 1..((last - first) \div w + 1) |-> first + (n - 1) * w]

\* .first() in place of .last()
FirstInBin(series, b, w) ==
    LET members == {i \in DOMAIN series :
                       /\ b <= series[i].time /\ series[i].time < b + w
                       /\ series[i].price.k # "nan"}
    IN  IF members = {} THEN NaN ELSE series[SetMin(members)].price

\* .last(): the last non-missing value of a bucket, missing for an empty one
LastInBin(series, b, w) ==
    LET members == {i \in DOMAIN series :
                       /\ b <= series[i].time /\ series[i].time < b + w
                       /\ series[i].price.k # "nan"}
    IN  IF members = {} THEN NaN ELSE series[SetMax(members)].price

\* the resampled series with its empty buckets kept
KeepEmpty(s) == s

\* .dropna() of the resampled series
DropEmpty(s) == SelectSeq(s, LAMBDA r : r.price.k # "nan")

\* series.resample(rule).last().dropna().reset_index()
Resample(series, rule) ==
    LET w == Width(rule)
        bins == Bins(series, w)
    IN  DropEmpty([n \in DOMAIN bins |->
                      [time |-> BinLabel(bins[n], w), price |-> LastInBin(series, bins[n], w)]])

\* df.set_index(time_col)[price_col]
PriceSeries(d, tc, pcol) ==
    [i \in DOMAIN d.rows |->
        [time |-> d.rows[i][ColIndex(d, tc)].v, price |-> d.rows[i][ColIndex(d, pcol)]]]

----------------------------------------------------------------------------
(* The bounded sets of input files *)

NoEntries == [p \in {} |-> EmptyDf]

Seps == {",", ";"}

\* names of a first column, and of the other columns
FirstNames == {"Date", "Close"}

ValueNames == {"Close", "price", "Name", "Volume"}

\* fields of a first column, and of the other columns
TimeTexts == {"2020-01-01 10:00", "2020-01-02 09:00", "n/a"}

ValueTexts == {"100", "abc", ""}

InjectiveSeqs(S, n) == {s \in [1..n -> S] : \A a, b \in 1..n : a # b => s[a] # s[b]}

\* headers of n distinct column names
Headers(n) ==
    UNION {{<<f>> \o rest : rest \in InjectiveSeqs(ValueNames \ {f}, n - 1)} : f \in FirstNames}

Lines(n) == {<<t>> \o vs : t \in TimeTexts, vs \in [1..(n - 1) -> ValueTexts]}

\* every file of at most MaxCols columns, MaxRows rows and MaxCells fields
Contents ==
    UNION {[sep : Seps, header : Headers(n), rows : [1..m -> Lines(n)]] :
              <<n, m>> \in {x \in (1..MaxCols) \X (0..MaxRows) : x[1] * x[2] <= MaxCells}}

SeriesTimes == DOMAIN DateValue

SeriesPrices == DOMAIN NumberValue

\* every two-column file of at most MaxSeriesLen rows of a date and a number,
\* written in time order
SeriesContents ==
    UNION {[sep : {","}, header : {<<"Date", "Value">>},
            rows : {r \in [1..m -> {<<t, v>> : t \in SeriesTimes, v \in SeriesPrices}] :
                       \A i \in 1..(m - 1) : DateValue[r[i][1]] <= DateValue[r[i + 1][1]]}] :
              m \in 0..MaxSeriesLen}

SampleClose ==
    [sep |-> ",", header |-> <<"Date", "Close">>, rows |-> <<<<"2020-01-01 10:00", "100">>>>]

SampleEdited ==
    [sep |-> ",", header |-> <<"Date", "Close">>, rows |-> <<<<"2020-01-01 10:00", "105">>>>]

SampleText ==
    [sep |-> ";", header |-> <<"Date", "Name">>, rows |-> <<<<"2020-01-02 09:00", "abc">>>>]

\* the files the environment writes between reruns
EditContents == {SampleClose, SampleEdited, SampleText}

----------------------------------------------------------------------------
(* The script, one action per step *)

\* a path counted as present when it was loaded before
ExistsOrCached(path) == path \in DOMAIN fs \/ path \in DOMAIN cache

\* line 44: csv_path.exists()
Exists(path) == path \in DOMAIN fs

\* st.cache_data: a call with an argument seen before returns the stored table
CacheHit(path) == path \in DOMAIN cache

Locals == <<df, time_col, price_col, numeric_cols, df_resampled>>

Inputs == <<fs, csv_path, resolution>>

\* lines 44-46
CheckExists ==
    /\ pc = "start"
    /\ IF Exists(csv_path)
       THEN pc' = "load" /\ message' = message
       ELSE pc' = "stopped" /\ message' = FileNotFound
    /\ UNCHANGED <<Inputs, cache, Locals, chart>>

\* line 48 with lines 32-41: the cache hands out a copy of the stored table, so
\* what the script does to df later never changes the cache
LoadCsv ==
    /\ pc = "load"
    /\ IF CacheHit(csv_path)
       THEN /\ df' = cache[csv_path]
            /\ UNCHANGED <<cache, message>>
            /\ pc' = "parse_time"
       ELSE IF csv_path \in DOMAIN fs
       THEN /\ df' = load_csv(fs[csv_path])
            /\ cache' = (csv_path :> df') @@ cache
            /\ message' = message
            /\ pc' = "parse_time"
       ELSE \* pd.read_csv raises FileNotFoundError
            /\ pc' = "crashed"
            /\ message' = "FileNotFoundError"
            /\ UNCHANGED <<cache, df>>
    /\ UNCHANGED <<Inputs, time_col, price_col, numeric_cols, df_resampled, chart>>

\* lines 59-68
ParseTime ==
    /\ pc = "parse_time"
    /\ time_col' = df.columns[1]
    /\ df' \in sort_values(dropna(parse_datetime(df, time_col'), time_col'), time_col')
    /\ pc' = "guess_price"
    /\ UNCHANGED <<Inputs, cache, price_col, numeric_cols, df_resampled, message, chart>>

\* lines 71-76
GuessPrice ==
    /\ pc = "guess_price"
    /\ price_col' = GuessCommonName(df.columns)
    /\ pc' = IF price_col' = None THEN "numeric_fallback" ELSE "coerce_price"
    /\ UNCHANGED <<Inputs, cache, df, time_col, numeric_cols, df_resampled, message, chart>>

\* lines 79-94
NumericFallback ==
    /\ pc = "numeric_fallback"
    /\ LET found == NumericCols(df, time_col)
           coerced == CoerceEach(df, time_col, 1)
       IN  IF NeedsCoercion(found)
           THEN df' = coerced /\ numeric_cols' = NumericCols(coerced, time_col)
           ELSE df' = df /\ numeric_cols' = found
    /\ IF numeric_cols' = <<>>
       THEN pc' = "stopped" /\ message' = NoPriceColumnFound /\ price_col' = price_col
       ELSE pc' = "coerce_price" /\ message' = message /\ price_col' = PickPrice(numeric_cols')
    /\ UNCHANGED <<Inputs, cache, time_col, df_resampled, chart>>

\* lines 97-98 (lines 100-101 then show time_col and price_col in the sidebar)
CoercePrice ==
    /\ pc = "coerce_price"
    /\ df' = dropna(coerce_numeric(df, price_col), price_col)
    /\ pc' = "resample"
    /\ UNCHANGED <<Inputs, cache, time_col, price_col, numeric_cols, df_resampled,
                   message, chart>>

\* lines 106-115: set_index moves the time column out of the columns, so
\* selecting the price column raises KeyError when it is the time column
ResampleStep ==
    /\ pc = "resample"
    /\ IF price_col = time_col
       THEN pc' = "crashed" /\ message' = "KeyError" /\ df_resampled' = df_resampled
       ELSE /\ df_resampled' = Resample(PriceSeries(df, time_col, price_col), resolution)
            /\ pc' = "plot"
            /\ message' = message
    /\ UNCHANGED <<Inputs, cache, df, time_col, price_col, numeric_cols, chart>>

\* lines 121-178
Plot ==
    /\ pc = "plot"
    /\ chart' = [drawn |-> TRUE, bars |-> df_resampled,
                 indicator |-> [i \in DOMAIN df_resampled |-> 0]]
    /\ pc' = "done"
    /\ UNCHANGED <<Inputs, cache, Locals, message>>

Step ==
    \/ CheckExists
    \/ LoadCsv
    \/ ParseTime
    \/ GuessPrice
    \/ NumericFallback
    \/ CoercePrice
    \/ ResampleStep
    \/ Plot

----------------------------------------------------------------------------
(* The user and the file system, between two reruns *)

Ended == pc \in {"done", "stopped", "crashed"}

\* a rerun starts the script afresh: nothing of the last run but the cache is kept
StartRerun ==
    /\ pc' = "start"
    /\ df' = EmptyDf
    /\ time_col' = None
    /\ price_col' = None
    /\ numeric_cols' = <<>>
    /\ df_resampled' = <<>>
    /\ message' = ""
    /\ chart' = NoChart

\* line 21: the user types another path
SetCsvPath ==
    /\ Ended
    /\ \E p \in Paths \ {csv_path} : csv_path' = p
    /\ StartRerun
    /\ UNCHANGED <<fs, cache, resolution>>

\* line 27: the user selects another resolution
SetResolution ==
    /\ Ended
    /\ \E r \in Range(Resolutions) \ {resolution} : resolution' = r
    /\ StartRerun
    /\ UNCHANGED <<fs, cache, csv_path>>

\* the user reruns the page with the same inputs
Rerun ==
    /\ Ended
    /\ StartRerun
    /\ UNCHANGED <<fs, cache, csv_path, resolution>>

\* the file at a path is written or replaced
WriteFile ==
    /\ Ended
    /\ \E p \in Paths, c \in EditContents :
          /\ ~(p \in DOMAIN fs /\ fs[p] = c)
          /\ fs' = (p :> c) @@ fs
    /\ UNCHANGED <<cache, csv_path, resolution, pc, Locals, message, chart>>

\* the file at a path is removed
RemoveFile ==
    /\ Ended
    /\ \E p \in DOMAIN fs : fs' = [q \in DOMAIN fs \ {p} |-> fs[q]]
    /\ UNCHANGED <<cache, csv_path, resolution, pc, Locals, message, chart>>

----------------------------------------------------------------------------
(* Specifications *)

\* the first run of a session: the widgets hold their defaults (lines 21, 27)
FirstRun ==
    /\ csv_path = DEFAULT_CSV
    /\ resolution = Resolutions[1]
    /\ cache = NoEntries
    /\ pc = "start"
    /\ df = EmptyDf
    /\ time_col = None
    /\ price_col = None
    /\ numeric_cols = <<>>
    /\ df_resampled = <<>>
    /\ message = ""
    /\ chart = NoChart

\* Sessions of reruns over files that come, change and go
Init ==
    /\ FirstRun
    /\ fs = (DEFAULT_CSV :> SampleClose)

Next ==
    \/ Step
    \/ SetCsvPath
    \/ SetResolution
    \/ Rerun
    \/ WriteFile
    \/ RemoveFile

Spec == Init /\ [][Next]_vars

\* One run of the script on every table of the bounded input set
InitPipeline ==
    /\ FirstRun
    /\ fs \in {NoEntries} \cup {(DEFAULT_CSV :> c) : c \in Contents}

SpecPipeline == InitPipeline /\ [][Step]_vars

\* One run of the script on every clean series of the bounded input set, at
\* every resolution
InitResample ==
    /\ csv_path = DEFAULT_CSV
    /\ resolution \in Range(Resolutions)
    /\ cache = NoEntries
    /\ pc = "start"
    /\ df = EmptyDf
    /\ time_col = None
    /\ price_col = None
    /\ numeric_cols = <<>>
    /\ df_resampled = <<>>
    /\ message = ""
    /\ chart = NoChart
    /\ fs \in {(DEFAULT_CSV :> c) : c \in SeriesContents}

SpecResample == InitResample /\ [][Step]_vars

----------------------------------------------------------------------------
(* Properties of column detection and cleaning, under SpecPipeline *)

\* the file the running script reads, and the table load_csv makes of it
InputFile == fs[csv_path]

HasCommonName(columns) == \E i \in DOMAIN common_price_names : common_price_names[i] \in Range(columns)

\* the script is past the guess of lines 71-76
Guessed == pc \in {"numeric_fallback", "coerce_price", "resample", "plot", "done"}
              \/ (pc \in {"stopped", "crashed"} /\ message \in {NoPriceColumnFound, "KeyError"})

\* the script has reached the resampling of line 106
ReachedResample == pc \in {"resample", "plot", "done"} \/ (pc = "crashed" /\ message = "KeyError")

\* there are columns besides the first, with values, and each value is a text
\* that is neither a number nor empty
OnlyTextColumns(content) ==
    /\ Len(content.header) >= 2
    /\ content.rows # <<>>
    /\ \A i \in DOMAIN content.rows : \A j \in 2..Len(content.header) :
          content.rows[i][j] \notin DOMAIN NumberValue \cup {""}

\* C1: a rerun on a table without a common price name whose non-time columns
\* hold only text ends stopped with the NoPriceColumnFound error and no chart.
C1_TextColumnsStopWithNoPriceColumn ==
    (/\ Ended
     /\ csv_path \in DOMAIN fs
     /\ ~HasCommonName(InputFile.header)
     /\ OnlyTextColumns(InputFile))
    => (pc = "stopped" /\ message = NoPriceColumnFound /\ ~chart.drawn)

\* C5: once the price column is guessed, it is the earliest name of the
\* priority list that is a column ("Close" whenever it is one, wherever it
\* stands), and then the numeric fallback has not run; a column that is not
\* on the list is chosen only when no column is.
C5_CommonNameWins ==
    Guessed =>
        /\ \A i \in DOMAIN common_price_names :
              (/\ common_price_names[i] \in Range(df.columns)
               /\ \A j \in 1..(i - 1) : common_price_names[j] \notin Range(df.columns))
              => (price_col = common_price_names[i] /\ numeric_cols = <<>>)
        /\ "Close" \in Range(df.columns) => price_col = "Close"
        /\ ~HasCommonName(df.columns) => price_col \notin Range(common_price_names)

\* "Close" stands last, behind another common name that is a numeric column
C5_Witness ==
    /\ pc = "done"
    /\ df.columns = <<"Date", "price", "Close">>
    /\ is_numeric_dtype(df.dtypes[2])
    /\ price_col = "Close"
    /\ df.rows # <<>>

\* C8: when the resampling step is reached, every row has a timestamp and a
\* numeric price, the rows are exactly the rows of the file whose time and
\* price both parse, and they are in non-decreasing order of time.
C8_CanonicalSeries ==
    ReachedResample =>
        LET t == ColIndex(df, time_col)
            p == ColIndex(df, price_col)
            good == {i \in DOMAIN InputFile.rows :
                        /\ InputFile.rows[i][1] \in DOMAIN DateValue
                        /\ p # t => InputFile.rows[i][p] \in DOMAIN NumberValue}
        IN  /\ \A i \in DOMAIN df.rows :
                  /\ df.rows[i][t].k \in {"ts", "num"}
                  /\ df.rows[i][p].k = "num"
            /\ Len(df.rows) = Cardinality(good)
            /\ \A i \in 1..(Len(df.rows) - 1) : df.rows[i][t].v <= df.rows[i + 1][t].v

\* of three rows written latest first, one is dropped and two are kept
C8_Witness ==
    /\ pc = "resample"
    /\ Len(InputFile.rows) = 3
    /\ Len(df.rows) = 2
    /\ df.rows[1][1].v < df.rows[2][1].v
    /\ \E i \in 1..2 : /\ InputFile.rows[i][1] = "2020-01-02 09:00"
                       /\ InputFile.rows[i + 1][1] = "2020-01-01 10:00"

\* C9: without a common name, the price column is the first column after the
\* time column that the loaded table already holds as numbers, and then no
\* column is coerced; only without such a column are all columns but the time
\* column coerced, and the first numeric one after that is taken.
C9_NumericFallback ==
    (/\ pc = "coerce_price" \/ (pc = "stopped" /\ message = NoPriceColumnFound)
     /\ ~HasCommonName(df.columns))
    => LET raw == load_csv(InputFile)
           others == 2..Len(raw.columns)
           already == {j \in others : is_numeric_dtype(raw.dtypes[j])}
           after == {j \in others : is_numeric_dtype(df.dtypes[j])}
       IN  /\ df.columns = raw.columns
           /\ IF already # {}
              THEN /\ price_col = raw.columns[SetMin(already)]
                   /\ \A j \in others : df.dtypes[j] = raw.dtypes[j]
                   /\ \A j \in others : \A i \in DOMAIN df.rows :
                         raw.dtypes[j] = "object" => df.rows[i][j].k \in {"str", "nan"}
              ELSE /\ \A j \in others : \A i \in DOMAIN df.rows : df.rows[i][j].k \in {"num", "nan"}
                   /\ IF after = {} THEN pc = "stopped"
                      ELSE pc = "coerce_price" /\ price_col = raw.columns[SetMin(after)]

\* a text column stands before the numeric column and stays text
C9_Witness ==
    /\ pc = "coerce_price"
    /\ df.columns = <<"Date", "Name", "Volume">>
    /\ df.dtypes[2] = "object"
    /\ price_col = "Volume"
    /\ \E i \in DOMAIN df.rows : df.rows[i][2].k = "str"

\* C10: a selected price column is never the time column.
C10_PriceColumnIsNotTimeColumn ==
    price_col # None => price_col # time_col

----------------------------------------------------------------------------
(* Properties of the resampling, under SpecResample *)

Resampled == pc \in {"plot", "done"}

\* the canonical series the resampling reads
Canonical == PriceSeries(df, time_col, price_col)

\* the canonical rows whose timestamp lies in [b, b + w)
InBucket(b, w) == {i \in DOMAIN Canonical : b <= Canonical[i].time /\ Canonical[i].time < b + w}

\* C2: at every resolution, each resampled row stands at the start of a
\* bucket of that width and carries the price of the last canonical row
\* whose timestamp lies in the bucket's half-open interval.
C2_LastPriceOfBucket ==
    Resampled =>
        \A n \in DOMAIN df_resampled :
            LET b == df_resampled[n].time
                w == Width(resolution)
            IN  /\ b % w = 0
                /\ InBucket(b, w) # {}
                /\ df_resampled[n].price = Canonical[SetMax(InBucket(b, w))].price

\* the scenario of the specification: two rows of 2020-01-01 and one of
\* 2020-01-02 at daily resolution give the day's last price for each day
C2_Witness ==
    /\ pc = "done"
    /\ resolution = "D"
    /\ Canonical = <<[time |-> 600, price |-> Num(100)], [time |-> 630, price |-> Num(105)],
                     [time |-> 1980, price |-> Num(110)]>>
    /\ df_resampled = <<[time |-> 0, price |-> Num(105)], [time |-> 1440, price |-> Num(110)]>>

\* C3: the bucket starts of the resampled rows are exactly the starts of the
\* buckets in which a canonical row lies (a bucket without observations has no
\* row, between populated buckets or elsewhere), one row for each, each with a
\* price, in order of time.
C3_NoRowForEmptyBucket ==
    Resampled =>
        LET w == Width(resolution)
            populated == {Canonical[i].time - (Canonical[i].time % w) : i \in DOMAIN Canonical}
        IN  /\ {df_resampled[n].time : n \in DOMAIN df_resampled} = populated
            /\ \A n \in 1..(Len(df_resampled) - 1) :
                  df_resampled[n].time < df_resampled[n + 1].time
            /\ \A n \in DOMAIN df_resampled : df_resampled[n].price.k = "num"

\* two populated buckets with an empty bucket between them
C3_Witness ==
    /\ pc = "done"
    /\ \E n \in 1..(Len(df_resampled) - 1) :
          /\ df_resampled[n + 1].time - df_resampled[n].time > Width(resolution)
          /\ InBucket(df_resampled[n].time + Width(resolution), Width(resolution)) = {}

\* C4: resampling the resampled series again at the same resolution gives the
\* same series.
C4_ResampleIdempotent ==
    Resampled => Resample(df_resampled, resolution) = df_resampled

\* the first resampling merged rows and left more than one bucket
C4_Witness ==
    /\ pc = "done"
    /\ resolution = "H"
    /\ Len(df_resampled) = 2
    /\ Len(Canonical) = 3

----------------------------------------------------------------------------
(* Properties of reruns, under Spec *)

\* C6: a rerun that starts while no file is at the configured path stops at
\* once with the FileNotFound message, loads nothing, draws nothing and leaves
\* the cache alone, cached path or not; a stopped script does nothing more.
C6_MissingFileStops ==
    [][/\ (pc = "start" /\ csv_path \notin DOMAIN fs)
          => /\ pc' = "stopped"
             /\ message' = FileNotFound
             /\ df' = EmptyDf
             /\ df_resampled' = <<>>
             /\ ~chart'.drawn
             /\ cache' = cache
       /\ (pc = "stopped" /\ pc' # "start")
          => UNCHANGED <<pc, cache, Locals, message, chart>>]_vars

\* the path was loaded and cached by an earlier rerun, the file was removed
\* and this rerun stopped
C6_Witness ==
    /\ pc = "stopped"
    /\ message = FileNotFound
    /\ csv_path \notin DOMAIN fs
    /\ csv_path \in DOMAIN cache
    /\ ~chart.drawn

\* C7: the table a rerun works on is the parse of the content the file at the
\* configured path has during that rerun.
C7_DatasetIsCurrentContent ==
    pc = "parse_time" => df = load_csv(InputFile)

====
